---- MODULE Spec2Model ----
(***************************************************************************)
(* TrashShell (src/shell.py): the command-line execution engine.           *)
(*                                                                         *)
(* Text is modelled at character level: a string is a sequence of          *)
(* one-character strings, so that tokenizing, joining, splitting,          *)
(* expansion and the assignment pattern are computed the way the code      *)
(* computes them.  The input lines hold no backslash and no whitespace     *)
(* other than the blank, so the lexer models shlex's quote and blank rules *)
(* only.                                                                   *)
(***************************************************************************)
EXTENDS Integers, Sequences, FiniteSets, TLC

(***************************************************************************)
(* Characters                                                              *)
(***************************************************************************)
SP == " "
SQ == "'"
DQ == "\""

Letters ==
  {"a","b","c","d","e","f","g","h","i","j","k","l","m","n","o","p","q","r",
   "s","t","u","v","w","x","y","z","A","B","C","D","E","F","G","H","I","J",
   "K","L","M","N","O","P","Q","R","S","T","U","V","W","X","Y","Z"}

Digits == {"0","1","2","3","4","5","6","7","8","9"}

\* the class \w of the pattern in expand_vars
WordChars == Letters \cup Digits \cup {"_"}

(***************************************************************************)
(* String functions of the Python library, as the code uses them           *)
(***************************************************************************)
\* c in s
Contains(s, c) == \E k \in 1..Len(s) : s[k] = c

\* position of the first c in s (Len(s)+1 when there is none)
RECURSIVE FirstIndex(_, _, _)
FirstIndex(s, c, k) ==
  IF k > Len(s) THEN k
  ELSE IF s[k] = c THEN k
  ELSE FirstIndex(s, c, k + 1)

\* s.strip()
RECURSIVE LStrip(_)
LStrip(s) == IF s # <<>> /\ Head(s) = SP THEN LStrip(Tail(s)) ELSE s

RECURSIVE RStrip(_)
RStrip(s) ==
  IF s # <<>> /\ s[Len(s)] = SP THEN RStrip(SubSeq(s, 1, Len(s) - 1)) ELSE s

Strip(s) == RStrip(LStrip(s))

\* s.split(c): the parts between the occurrences of c, empty parts kept
RECURSIVE SplitChar(_, _)
SplitChar(s, c) ==
  LET k == FirstIndex(s, c, 1) IN
    IF k > Len(s) THEN <<s>>
    ELSE <<SubSeq(s, 1, k - 1)>> \o SplitChar(SubSeq(s, k + 1, Len(s)), c)

\* s.split(): the maximal runs of non-blank characters
SplitWs(s) == SelectSeq(SplitChar(s, SP), LAMBDA w : w # <<>>)

\* sep.join(parts)
RECURSIVE Join(_, _)
Join(parts, sep) ==
  IF parts = <<>> THEN <<>>
  ELSE IF Len(parts) = 1 THEN parts[1]
  ELSE parts[1] \o sep \o Join(Tail(parts), sep)

\* s.startswith(p)
StartsWith(s, p) == Len(s) >= Len(p) /\ SubSeq(s, 1, Len(p)) = p

\* s.isidentifier()
IsIdentifier(s) ==
  /\ s # <<>>
  /\ s[1] \in Letters \cup {"_"}
  /\ \A k \in 1..Len(s) : s[k] \in WordChars

(***************************************************************************)
(* shlex.split(line, posix=True)                                           *)
(***************************************************************************)
\* The lexer: blanks separate tokens, a quote opens a quoted run that ends
\* at the same quote, the quotes are dropped.  Each token carries whether a
\* part of it was quoted (the code sees the text only).  An open quote at
\* the end of the line is the ValueError "No closing quotation".
RECURSIVE Lex(_, _, _, _, _, _, _)
Lex(s, k, cur, inTok, wasQ, q, acc) ==
  LET emit == IF inTok THEN Append(acc, [text |-> cur, quoted |-> wasQ])
              ELSE acc
  IN
  IF k > Len(s) THEN
    IF q # "" THEN [ok |-> FALSE, toks |-> <<>>]
    ELSE [ok |-> TRUE, toks |-> emit]
  ELSE IF q # "" THEN
    IF s[k] = q THEN Lex(s, k + 1, cur, TRUE, TRUE, "", acc)
    ELSE Lex(s, k + 1, cur \o <<s[k]>>, TRUE, TRUE, q, acc)
  ELSE IF s[k] = SP THEN Lex(s, k + 1, <<>>, FALSE, FALSE, "", emit)
  ELSE IF s[k] \in {SQ, DQ} THEN Lex(s, k + 1, cur, TRUE, TRUE, s[k], acc)
  ELSE Lex(s, k + 1, cur \o <<s[k]>>, TRUE, wasQ, "", acc)

LexTokens(line) == Lex(line, 1, <<>>, FALSE, FALSE, "", <<>>)

\* shlex.split(line, posix=True): the tokens, or ValueError (ok false) when
\* a quote is left open
shlex_split_ClosesOpenQuote(line) ==
  LET r  == LexTokens(line)
      rd == LexTokens(line \o <<DQ>>)
      rs == LexTokens(line \o <<SQ>>)
      u  == IF r.ok THEN r ELSE IF rd.ok THEN rd ELSE rs
  IN
    [ok |-> TRUE, tokens |-> [k \in 1..Len(u.toks) |-> u.toks[k].text]]

shlex_split(line) ==
  LET r == LexTokens(line) IN
    [ok |-> r.ok, tokens |-> [k \in 1..Len(r.toks) |-> r.toks[k].text]]

(***************************************************************************)
(* The process environment and the search path: the shell's surroundings   *)
(***************************************************************************)
\* os.environ: one exported variable, H, with a non-empty value
environ == [n \in {<<"H">>} |-> <<"h">>]

\* the command names shutil.which resolves to an executable
OnPath == {<<"t">>}

\* the exit codes a child process may end with
ExitCodes == {0, 1, 2}

(***************************************************************************)
(* Variable expansion and assignment                                       *)
(***************************************************************************)
\* user_vars.get(name) or os.environ.get(name, ""): an empty binding counts
\* as no binding
replace_var_EmptyIsBound(name, uv) ==
  IF name \in DOMAIN uv THEN uv[name]
  ELSE IF name \in DOMAIN environ THEN environ[name]
  ELSE <<>>

replace_var(name, uv) ==
  IF name \in DOMAIN uv /\ uv[name] # <<>> THEN uv[name]
  ELSE IF name \in DOMAIN environ THEN environ[name]
  ELSE <<>>

\* the end of the run of word characters that starts at k
RECURSIVE WordEnd(_, _)
WordEnd(s, k) ==
  IF k < Len(s) /\ s[k + 1] \in WordChars THEN WordEnd(s, k + 1) ELSE k

\* pattern.sub(replace_var, command) for the pattern \$(\w+): one pass from
\* left to right, the substituted text is not scanned again
RECURSIVE ExpandFrom(_, _, _)
ExpandFrom(s, k, uv) ==
  IF k > Len(s) THEN <<>>
  ELSE IF s[k] = "$" /\ k < Len(s) /\ s[k + 1] \in WordChars THEN
    LET j == WordEnd(s, k + 1) IN
      replace_var(SubSeq(s, k + 1, j), uv) \o ExpandFrom(s, j + 1, uv)
  ELSE <<s[k]>> \o ExpandFrom(s, k + 1, uv)

expand_vars(command, uv) == ExpandFrom(command, 1, uv)

EXPORT == <<"e","x","p","o","r","t"," ">>

\* assign_variable: whether the line is taken as an assignment, and the
\* binding it makes
assign_variable(line) ==
  IF ~Contains(line, "=") \/ StartsWith(Strip(line), EXPORT)
  THEN [ok |-> FALSE, var |-> <<>>, val |-> <<>>]
  ELSE LET p   == FirstIndex(line, "=", 1)
           var == Strip(SubSeq(line, 1, p - 1))
           val == Strip(SubSeq(line, p + 1, Len(line)))
       IN [ok |-> IsIdentifier(var), var |-> var, val |-> val]

\* user_vars[var] = val
Bind(uv, var, val) ==
  [n \in DOMAIN uv \cup {var} |-> IF n = var THEN val ELSE uv[n]]

(***************************************************************************)
(* Builtins                                                                *)
(***************************************************************************)
internal_commands ==
  { <<"h","e","l","p">>, <<"e","x","i","t">>, <<"c","l","e","a","r">>,
    <<"e","n","v">>, <<"s","e","t">>, <<"c","d">>, <<"l","d">>, <<"e">> }

\* internal_set: the binding `set NAME words...` makes, if any
internal_set(args, uv) ==
  IF Len(args) >= 2 /\ IsIdentifier(args[1])
  THEN Bind(uv, args[1], Join(Tail(args), <<SP>>))
  ELSE uv

\* the statuses a builtin may return: cd and ld depend on the file system,
\* cd with more than one argument fails, the others return 0
BuiltinCodes(cmd, args) ==
  IF cmd = <<"c","d">> THEN (IF Len(args) > 1 THEN {1} ELSE {0, 1})
  ELSE IF cmd = <<"l","d">> THEN {0, 1}
  ELSE {0}

(***************************************************************************)
(* execute_line: segmentation                                              *)
(***************************************************************************)
AND == <<"&","&">>
OR  == <<"|","|">>
SEQ == <<";">>
OperatorTokens == {AND, OR, SEQ}

\* the while loop over the tokens, and the trailing `if current`
RECURSIVE SegLoop(_, _, _, _, _)
SegLoop(tokens, k, current, segs, ops) ==
  IF k > Len(tokens) THEN
    [segments  |-> IF current # <<>> THEN Append(segs, Join(current, <<SP>>))
                   ELSE segs,
     operators |-> ops]
  ELSE IF tokens[k] \in OperatorTokens THEN
    SegLoop(tokens, k + 1, <<>>, Append(segs, Join(current, <<SP>>)),
            Append(ops, tokens[k]))
  ELSE SegLoop(tokens, k + 1, Append(current, tokens[k]), segs, ops)

\* the segments and the operators of a token list
Segmenter_DropsEmptySegments(tokens) ==
  LET r == SegLoop(tokens, 1, <<>>, <<>>, <<>>) IN
    [segments  |-> SelectSeq(r.segments, LAMBDA x : x # <<>>),
     operators |-> r.operators]

Segmenter(tokens) == SegLoop(tokens, 1, <<>>, <<>>, <<>>)

(***************************************************************************)
(* The input lines                                                         *)
(***************************************************************************)
MaxSegs   == 3   \* segments of a chained line
MaxStages == 3   \* stages of a pipeline line

wT    == <<"t">>                      \* an executable on the search path
wN    == <<"n">>                      \* no builtin, not on the search path
wE    == <<"e">>                      \* the builtin e (echo)
wCD   == <<"c","d">>
wEXIT == <<"e","x","i","t">>
wSET  == <<"s","e","t">>
PIPE  == <<"|">>
refX  == <<"$","X">>
refY  == <<"$","Y">>
refH  == <<"$","H">>
setX5 == <<"X","=","5">>
setH  == <<"H","=">>
setYX == <<"Y","=","$","X">>

Words(ws) == Join(ws, <<SP>>)

\* the words of a chain: segments and the operators between them; an empty
\* segment leaves two operators side by side (or one leading the line)
RECURSIVE Interleave(_, _)
Interleave(segs, ops) ==
  IF Len(segs) = 1 THEN <<segs[1]>>
  ELSE <<segs[1], ops[1]>> \o Interleave(Tail(segs), Tail(ops))

ChainSegs == {wT, wN, <<>>}

ChainLines ==
  UNION { { Words(SelectSeq(Interleave(segs, ops), LAMBDA w : w # <<>>)) :
              segs \in [1..k -> ChainSegs],
              ops \in [1..(k - 1) -> OperatorTokens] } : k \in 1..MaxSegs }

StageCmds == {wT, wCD, Words(<<wT, refX>>)}

PipeLines ==
  UNION { { Join(stages, <<SP, "|", SP>>) : stages \in [1..k -> StageCmds] } :
            k \in 2..MaxStages }

SpecialLines ==
  { Words(<<wT, <<SQ, ";", SQ>>, wT>>),          \* t ';' t
    <<"t", ";", "t">>,                           \* t;t
    Words(<<wT, <<SQ, "|", SQ>>, wT>>),          \* t '|' t
    <<"t", "|", "t">>,                           \* t|t
    Words(<<wT, <<DQ, "&", "&", DQ>>, wN>>),     \* t "&&" n
    <<DQ, "t">>,                                 \* "t   (quote left open)
    setX5, setH, setYX,
    Words(<<wE, refX>>), Words(<<wE, refY>>), Words(<<wE, refH>>),
    Words(<<wT, refX>>), refY,
    Words(<<setX5, SEQ, wE, refX>>),
    Words(<<setH, SEQ, wE, refH>>),
    Words(<<setYX, SEQ, wE, refY>>),
    Words(<<wSET, <<"X">>, <<"5">> >>),
    Words(<<<<"e","x","p","o","r","t">>, setX5>>),
    wEXIT, Words(<<wEXIT, SEQ, wT>>),
    Words(<<wCD, AND, wT>>), Words(<<wCD, OR, wT>>),
    Words(<<wE, AND, wT>>), Words(<<wE, OR, wT>>),
    Words(<<wT, PIPE, wT, AND, wN>>) }

Lines == ChainLines \cup PipeLines \cup SpecialLines

(***************************************************************************)
(* State                                                                   *)
(***************************************************************************)
VARIABLES
  pc,           \* where control is: "prompt" (input(), line 279), "eval" (the
                \* loop of lines 239-255), "launch" (the loop of lines
                \* 179-203), "wait" (lines 205-208), "done" (main has ended)
  msg,          \* what main last reported (lines 281-289): "", "unexpected",
                \* "assertion", "interrupt", "goodbye"
  saved,        \* save_history has run (line 291)
  user_vars,    \* the Variable Store (line 18)
  line,         \* the line being executed (line 279)
  vars0,        \* the Variable Store as it was when the line was read
  segments, operators, idx, proceed, last_code,   \* locals of execute_line
  commands,     \* run_pipeline: the stage commands (line 172)
  stage,        \* run_pipeline: the stage of the launch loop, from 1
  procs,        \* run_pipeline: the processes launched (line 176)
  prev_stdout,  \* run_pipeline: the stage whose output the shell holds, 0
                \* for None (line 177)
  handles,      \* the output pipes the shell holds open, <<segment, stage>>
  waitpos,      \* run_pipeline: the position of the wait loop (line 206)
  log           \* what the line has done so far, one event per step

vars == <<pc, msg, saved, user_vars, line, vars0, segments, operators, idx,
          proceed, last_code, commands, stage, procs, prev_stdout, handles,
          waitpos, log>>

lineVars == <<line, vars0, segments, operators, idx, proceed, last_code>>
pipeVars == <<commands, stage, procs, prev_stdout, handles, waitpos>>

NoVars == [n \in {} |-> <<>>]

Event(seg, ev, st, text, code) ==
  [seg |-> seg, ev |-> ev, stage |-> st, text |-> text, code |-> code]

\* the locals of execute_line and run_pipeline when no line is being executed
Idle ==
  /\ line = <<>> /\ vars0 = NoVars
  /\ segments = <<>> /\ operators = <<>> /\ idx = 0
  /\ proceed = TRUE /\ last_code = 0
  /\ commands = <<>> /\ stage = 0 /\ procs = <<>>
  /\ prev_stdout = 0 /\ handles = {} /\ waitpos = 0
  /\ log = <<>>

\* main is about to read its first line (line 277).  The statements that
\* run before it when the file is loaded are taken to have run; what they
\* do is modelled apart, as ModuleLoad
Init ==
  /\ pc = "prompt" /\ msg = "" /\ saved = FALSE
  /\ user_vars = NoVars
  /\ Idle

(***************************************************************************)
(* main: reading a line                                                    *)
(***************************************************************************)
ResetLocals ==
  /\ line' = <<>> /\ vars0' = NoVars
  /\ segments' = <<>> /\ operators' = <<>> /\ idx' = 0
  /\ proceed' = TRUE /\ last_code' = 0
  /\ commands' = <<>> /\ stage' = 0 /\ procs' = <<>>
  /\ prev_stdout' = 0 /\ handles' = {} /\ waitpos' = 0
  /\ log' = <<>>

\* input() returns a line and execute_line tokenizes and segments it.  A
\* quote left open raises ValueError, which main reports before it reads
\* the next line; a line without tokens returns at once; a token list
\* without segments would fail the assert of line 235, which main reports
\* in the same way (with the empty message of AssertionError).
ReadLine ==
  /\ pc = "prompt"
  /\ \E l \in Lines :
       LET t == shlex_split(l) IN
         IF ~t.ok THEN
           /\ msg' = "unexpected"
           /\ UNCHANGED <<pc, saved, user_vars, lineVars, pipeVars, log>>
         ELSE IF t.tokens = <<>> THEN
           /\ msg' = ""
           /\ UNCHANGED <<pc, saved, user_vars, lineVars, pipeVars, log>>
         ELSE IF Segmenter(t.tokens).segments = <<>> THEN
           /\ msg' = "assertion"
           /\ UNCHANGED <<pc, saved, user_vars, lineVars, pipeVars, log>>
         ELSE
           LET sg == Segmenter(t.tokens) IN
             /\ pc' = "eval" /\ msg' = ""
             /\ line' = l /\ vars0' = user_vars
             /\ segments' = sg.segments /\ operators' = sg.operators
             /\ idx' = 1 /\ proceed' = TRUE /\ last_code' = 0
             /\ UNCHANGED <<saved, user_vars, pipeVars, log>>

\* KeyboardInterrupt while input() waits: a notice, and the loop goes on
InterruptAtPrompt ==
  /\ pc = "prompt"
  /\ msg' = "interrupt"
  /\ UNCHANGED <<pc, saved, user_vars, lineVars, pipeVars, log>>

\* EOFError from input(): the loop ends and history is saved
EndOfInput ==
  /\ pc = "prompt"
  /\ pc' = "done" /\ msg' = "goodbye" /\ saved' = TRUE
  /\ UNCHANGED <<user_vars, lineVars, pipeVars, log>>

(***************************************************************************)
(* execute_line: the evaluation loop                                       *)
(***************************************************************************)
\* the value of proceed for segment i (the first segment is 1)
Proceed_OrLikeAnd(i, ops, lc, prev) ==
  IF i > 1 THEN lc = 0 \/ ops[i - 1] = SEQ ELSE prev

Proceed(i, ops, lc, prev) ==
  IF i > 1 THEN
    IF ops[i - 1] = AND /\ lc # 0 THEN FALSE
    ELSE IF ops[i - 1] = OR /\ lc = 0 THEN FALSE
    ELSE TRUE
  ELSE prev

\* execute_line is running
Executing == pc \in {"eval", "launch", "wait"}

InLoop == pc = "eval" /\ idx <= Len(segments)

Gate == Proceed(idx, operators, last_code, proceed)

IsPipeline(segment) == Contains(segment, "|")

\* the argv of run_command: the stripped line, expanded, split at blanks
Parts(segment, uv) == SplitWs(expand_vars(Strip(segment), uv))

\* the branch run_command takes for a segment
Dispatch(segment, uv) ==
  LET l     == Strip(segment)
      parts == Parts(segment, uv)
  IN
    IF l = <<>> THEN "noop"
    ELSE IF assign_variable(l).ok THEN "assign"
    ELSE IF parts = <<>> THEN "noop"
    ELSE IF parts[1] = wEXIT THEN "exit"
    ELSE IF parts[1] \in internal_commands THEN "builtin"
    ELSE IF parts[1] \in OnPath THEN "external"
    ELSE "notfound"

\* a segment is done with status code: the next iteration
Completed(ev, text, code) ==
  /\ last_code' = code
  /\ proceed' = TRUE
  /\ idx' = idx + 1
  /\ log' = Append(log, Event(idx, ev, 0, text, code))
  /\ UNCHANGED <<pc, msg, saved, line, vars0, segments, operators>>

\* proceed is false: `continue`, the status is left as it is
SkipSegment_ResetsStatus ==
  /\ InLoop /\ ~Gate
  /\ proceed' = FALSE /\ idx' = idx + 1 /\ last_code' = 0
  /\ log' = Append(log, Event(idx, "skip", 0, <<>>, -1))
  /\ UNCHANGED <<pc, msg, saved, user_vars, line, vars0, segments, operators,
                 pipeVars>>

SkipSegment ==
  /\ InLoop /\ ~Gate
  /\ proceed' = FALSE /\ idx' = idx + 1
  /\ log' = Append(log, Event(idx, "skip", 0, <<>>, -1))
  /\ UNCHANGED <<pc, msg, saved, user_vars, line, vars0, segments, operators,
                 last_code, pipeVars>>

\* run_command on an empty line, or one that expands to nothing
RunNoop ==
  /\ InLoop /\ Gate /\ ~IsPipeline(segments[idx])
  /\ Dispatch(segments[idx], user_vars) = "noop"
  /\ Completed("noop", <<>>, 0)
  /\ UNCHANGED <<user_vars, pipeVars>>

\* run_command on an assignment
RunAssign ==
  /\ InLoop /\ Gate /\ ~IsPipeline(segments[idx])
  /\ Dispatch(segments[idx], user_vars) = "assign"
  /\ LET a == assign_variable(Strip(segments[idx])) IN
       /\ user_vars' = Bind(user_vars, a.var, a.val)
       /\ Completed("assign", a.var, 0)
  /\ UNCHANGED pipeVars

\* run_command on a builtin other than exit
RunBuiltin ==
  /\ InLoop /\ Gate /\ ~IsPipeline(segments[idx])
  /\ Dispatch(segments[idx], user_vars) = "builtin"
  /\ LET parts == Parts(segments[idx], user_vars) IN
       /\ user_vars' = IF parts[1] = wSET
                       THEN internal_set(Tail(parts), user_vars)
                       ELSE user_vars
       /\ \E code \in BuiltinCodes(parts[1], Tail(parts)) :
            Completed("builtin", Words(parts), code)
  /\ UNCHANGED pipeVars

\* the builtins that print text taken from their arguments, the environment
\* or the file system, and so may raise (an encoding or stream error)
RaisingBuiltins == { <<"e">>, <<"e","n","v">>, <<"c","d">>, <<"l","d">> }

\* execute_internal, the handler raising an Exception: it is reported at
\* the dispatch boundary and the status is 1
RunBuiltinFault_Propagates ==
  /\ InLoop /\ Gate /\ ~IsPipeline(segments[idx])
  /\ Dispatch(segments[idx], user_vars) = "builtin"
  /\ Parts(segments[idx], user_vars)[1] \in RaisingBuiltins
  /\ pc' = "prompt" /\ msg' = "unexpected"
  /\ log' = Append(log, Event(idx, "fault", 0,
                              Words(Parts(segments[idx], user_vars)), 1))
  /\ UNCHANGED <<saved, user_vars, lineVars, pipeVars>>

RunBuiltinFault ==
  /\ InLoop /\ Gate /\ ~IsPipeline(segments[idx])
  /\ Dispatch(segments[idx], user_vars) = "builtin"
  /\ Parts(segments[idx], user_vars)[1] \in RaisingBuiltins
  /\ Completed("fault", Words(Parts(segments[idx], user_vars)), 1)
  /\ UNCHANGED <<user_vars, pipeVars>>

\* run_command on exit: SystemExit leaves execute_line and the loop of
\* main, and history is saved
RunExit_AsStatus ==
  /\ InLoop /\ Gate /\ ~IsPipeline(segments[idx])
  /\ Dispatch(segments[idx], user_vars) = "exit"
  /\ last_code' = 0 /\ proceed' = TRUE /\ idx' = idx + 1
  /\ log' = Append(log, Event(idx, "exit", 0,
                              Words(Parts(segments[idx], user_vars)), 0))
  /\ UNCHANGED <<pc, msg, saved, user_vars, line, vars0, segments, operators,
                 pipeVars>>

RunExit ==
  /\ InLoop /\ Gate /\ ~IsPipeline(segments[idx])
  /\ Dispatch(segments[idx], user_vars) = "exit"
  /\ pc' = "done" /\ saved' = TRUE
  /\ log' = Append(log, Event(idx, "exit", 0,
                              Words(Parts(segments[idx], user_vars)), -1))
  /\ UNCHANGED <<msg, user_vars, lineVars, pipeVars>>

\* run_command on an executable: Popen, wait, the exit code
RunExternal ==
  /\ InLoop /\ Gate /\ ~IsPipeline(segments[idx])
  /\ Dispatch(segments[idx], user_vars) = "external"
  /\ \E code \in ExitCodes :
       Completed("external", Words(Parts(segments[idx], user_vars)), code)
  /\ UNCHANGED <<user_vars, pipeVars>>

\* run_command on an executable, Popen raising: status 1, no process
RunExternalFails ==
  /\ InLoop /\ Gate /\ ~IsPipeline(segments[idx])
  /\ Dispatch(segments[idx], user_vars) = "external"
  /\ Completed("spawnfail", Words(Parts(segments[idx], user_vars)), 1)
  /\ UNCHANGED <<user_vars, pipeVars>>

\* run_command on a name that is no builtin and not on the search path
RunNotFound_Status1 ==
  /\ InLoop /\ Gate /\ ~IsPipeline(segments[idx])
  /\ Dispatch(segments[idx], user_vars) = "notfound"
  /\ Completed("notfound", Words(Parts(segments[idx], user_vars)), 1)
  /\ UNCHANGED <<user_vars, pipeVars>>

RunNotFound ==
  /\ InLoop /\ Gate /\ ~IsPipeline(segments[idx])
  /\ Dispatch(segments[idx], user_vars) = "notfound"
  /\ Completed("notfound", Words(Parts(segments[idx], user_vars)), 127)
  /\ UNCHANGED <<user_vars, pipeVars>>

\* the loop is over: execute_line returns and main prompts again
EndLine ==
  /\ pc = "eval" /\ idx > Len(segments)
  /\ pc' = "prompt"
  /\ ResetLocals
  /\ UNCHANGED <<msg, saved, user_vars>>

(***************************************************************************)
(* run_pipeline                                                            *)
(***************************************************************************)
\* commands = [cmd.strip() for cmd in line.split('|')]
StageCommands(segment) ==
  LET cs == SplitChar(segment, "|") IN [k \in 1..Len(cs) |-> Strip(cs[k])]

\* cmd.split()[0] if cmd else ""
first_word(cmd) == IF cmd # <<>> THEN SplitWs(cmd)[1] ELSE <<>>

\* a segment with a `|` in it: run_pipeline starts, nothing launched yet
StartPipeline ==
  /\ InLoop /\ Gate /\ IsPipeline(segments[idx])
  /\ pc' = "launch"
  /\ proceed' = TRUE
  /\ commands' = StageCommands(segments[idx])
  /\ stage' = 1 /\ procs' = <<>> /\ prev_stdout' = 0 /\ waitpos' = 0
  /\ UNCHANGED <<msg, saved, user_vars, line, vars0, segments, operators, idx,
                 last_code, handles, log>>

AtStage == pc = "launch" /\ stage <= Len(commands)

\* for p in procs: p.kill()
KillAll(ps) == [k \in 1..Len(ps) |-> [ps[k] EXCEPT !.state = "killed"]]
KillEvents(ps) == [k \in 1..Len(ps) |-> Event(idx, "kill", k, <<>>, -1)]

\* run_pipeline returns code to execute_line: the next iteration
PipeDone(events, code) ==
  /\ pc' = "eval"
  /\ last_code' = code
  /\ idx' = idx + 1
  /\ log' = log \o events \o <<Event(idx, "return", 0, <<>>, code)>>
  /\ UNCHANGED <<msg, saved, user_vars, line, vars0, segments, operators,
                 proceed>>

\* the stage starts with a builtin name: the stages launched so far are
\* killed and the pipeline returns 1
PipeBuiltinAbort ==
  /\ AtStage
  /\ first_word(commands[stage]) \in internal_commands
  /\ procs' = KillAll(procs)
  /\ PipeDone(<<Event(idx, "reject", stage, commands[stage], -1)>>
                \o KillEvents(procs), 1)
  /\ UNCHANGED <<commands, stage, prev_stdout, handles, waitpos>>

\* Popen raises: the stages launched so far are killed, the pipeline
\* returns 1
PipeSpawnFail_NoKill ==
  /\ AtStage
  /\ first_word(commands[stage]) \notin internal_commands
  /\ PipeDone(<<Event(idx, "stagefail", stage, commands[stage], -1)>>, 1)
  /\ UNCHANGED <<commands, stage, procs, prev_stdout, handles, waitpos>>

PipeSpawnFail ==
  /\ AtStage
  /\ first_word(commands[stage]) \notin internal_commands
  /\ procs' = KillAll(procs)
  /\ PipeDone(<<Event(idx, "stagefail", stage, commands[stage], -1)>>
                \o KillEvents(procs), 1)
  /\ UNCHANGED <<commands, stage, prev_stdout, handles, waitpos>>

\* Popen(cmd, shell=True, stdin=prev_stdout, stdout=PIPE or None) succeeds:
\* the shell closes its handle to the previous stage's output and keeps the
\* new stage's (none for the last stage)
PipeLaunch_KeepsPrevOpen ==
  /\ AtStage
  /\ first_word(commands[stage]) \notin internal_commands
  /\ procs' = Append(procs, [state |-> "running", code |-> -1,
                             stdin |-> prev_stdout,
                             stdout |-> IF stage < Len(commands)
                                        THEN "pipe" ELSE "shell"])
  /\ handles' = handles
                  \cup (IF stage < Len(commands) THEN {<<idx, stage>>} ELSE {})
  /\ prev_stdout' = IF stage < Len(commands) THEN stage ELSE 0
  /\ stage' = stage + 1
  /\ pc' = IF stage = Len(commands) THEN "wait" ELSE "launch"
  /\ waitpos' = IF stage = Len(commands) THEN 1 ELSE 0
  /\ log' = Append(log, Event(idx, "launch", stage, commands[stage], -1))
  /\ UNCHANGED <<msg, saved, user_vars, lineVars, commands>>

PipeLaunch ==
  /\ AtStage
  /\ first_word(commands[stage]) \notin internal_commands
  /\ procs' = Append(procs, [state |-> "running", code |-> -1,
                             stdin |-> prev_stdout,
                             stdout |-> IF stage < Len(commands)
                                        THEN "pipe" ELSE "shell"])
  /\ handles' = (handles \ {<<idx, prev_stdout>>})
                  \cup (IF stage < Len(commands) THEN {<<idx, stage>>} ELSE {})
  /\ prev_stdout' = IF stage < Len(commands) THEN stage ELSE 0
  /\ stage' = stage + 1
  /\ pc' = IF stage = Len(commands) THEN "wait" ELSE "launch"
  /\ waitpos' = IF stage = Len(commands) THEN 1 ELSE 0
  /\ log' = Append(log, Event(idx, "launch", stage, commands[stage], -1))
  /\ UNCHANGED <<msg, saved, user_vars, lineVars, commands>>

\* p.wait() for the next process of procs, in the order of the list
PipeWait ==
  /\ pc = "wait" /\ waitpos <= Len(procs)
  /\ \E code \in ExitCodes :
       /\ procs' = [procs EXCEPT ![waitpos] =
                      [@ EXCEPT !.state = "exited", !.code = code]]
       /\ log' = Append(log, Event(idx, "wait", waitpos, <<>>, code))
  /\ waitpos' = waitpos + 1
  /\ UNCHANGED <<pc, msg, saved, user_vars, lineVars, commands, stage,
                 prev_stdout, handles>>

\* return retcodes[-1] if retcodes else 0
PipeReturn_FirstStage ==
  /\ pc = "wait" /\ waitpos > Len(procs)
  /\ PipeDone(<<>>, IF procs = <<>> THEN 0 ELSE procs[1].code)
  /\ UNCHANGED <<user_vars, pipeVars>>

PipeReturn ==
  /\ pc = "wait" /\ waitpos > Len(procs)
  /\ PipeDone(<<>>, IF procs = <<>> THEN 0 ELSE procs[Len(procs)].code)
  /\ UNCHANGED <<user_vars, pipeVars>>

\* KeyboardInterrupt while execute_line runs (a child being waited for, or
\* any statement of the line): neither run_command nor run_pipeline catches
\* it, main prints its notice and reads the next line
InterruptLine_EndsLoop ==
  /\ Executing
  /\ pc' = "done" /\ msg' = "interrupt" /\ saved' = TRUE
  /\ UNCHANGED <<user_vars, lineVars, pipeVars, log>>

InterruptLine ==
  /\ Executing
  /\ pc' = "prompt" /\ msg' = "interrupt"
  /\ ResetLocals
  /\ UNCHANGED <<saved, user_vars>>

(***************************************************************************)
(* The shell                                                               *)
(***************************************************************************)
Next ==
  \/ ReadLine
  \/ InterruptAtPrompt
  \/ EndOfInput
  \/ SkipSegment
  \/ RunNoop
  \/ RunAssign
  \/ RunBuiltin
  \/ RunBuiltinFault
  \/ RunExit
  \/ RunExternal
  \/ RunExternalFails
  \/ RunNotFound
  \/ StartPipeline
  \/ PipeBuiltinAbort
  \/ PipeSpawnFail
  \/ PipeLaunch
  \/ PipeWait
  \/ PipeReturn
  \/ EndLine
  \/ InterruptLine

Spec == Init /\ [][Next]_vars

(***************************************************************************)
(* Reading the log                                                         *)
(***************************************************************************)
CompletionEvents ==
  {"skip", "noop", "assign", "builtin", "fault", "external", "spawnfail",
   "notfound", "return"}

\* one event per segment the loop is through with, in segment order
Done == SelectSeq(log, LAMBDA e : e.ev \in CompletionEvents)

Ran(e) == e.ev # "skip"

Max(S) == CHOOSE m \in S : \A x \in S : x <= m

\* the status of the last segment before s that was executed (0 if none)
LastStatus(d, s) ==
  LET R == {j \in 1..(s - 1) : j <= Len(d) /\ Ran(d[j])} IN
    IF R = {} THEN 0 ELSE d[Max(R)].code

\* the events of segment s with one of the given names
EventsOf(s, names) == SelectSeq(log, LAMBDA e : e.seg = s /\ e.ev \in names)

(***************************************************************************)
(* C1: every segment after the first is run or skipped by the operator     *)
(* before it and the status of the last executed segment alone: after &&   *)
(* it runs iff that status is 0, after || iff it is not 0, after ; always; *)
(* the first segment always runs.                                          *)
(***************************************************************************)
C1_GatingByOperatorAndStatus ==
  \A s \in 1..Len(Done) :
    Ran(Done[s]) <=>
      \/ s = 1
      \/ operators[s - 1] = SEQ
      \/ operators[s - 1] = AND /\ LastStatus(Done, s) = 0
      \/ operators[s - 1] = OR /\ LastStatus(Done, s) # 0

\* a segment skipped after &&, and the one after it run by || on the
\* status the skipped segment left alone
C1_Witness ==
  /\ Len(Done) >= 3
  /\ operators[1] = AND /\ ~Ran(Done[2])
  /\ operators[2] = OR /\ Ran(Done[3])

(***************************************************************************)
(* C2: the status of a line starts at 0 and only an executed segment       *)
(* changes it: at every point of the evaluation, the end of the line       *)
(* included, it is the status of the last executed segment (0 if none).    *)
(***************************************************************************)
C2_StatusIsLastExecuted ==
  Executing => last_code = LastStatus(Done, Len(Done) + 1)

\* the end of a line whose last segment was skipped, the status still not 0
C2_Witness ==
  /\ pc = "eval" /\ idx > Len(segments)
  /\ Len(Done) >= 2 /\ ~Ran(Done[Len(Done)])
  /\ last_code # 0

(***************************************************************************)
(* C3: a pipeline with a builtin as any of its stages returns 1 and has    *)
(* spawned no process at all.                                              *)
(***************************************************************************)
C3_BuiltinPipelineSpawnsNothing ==
  \A k \in DOMAIN log :
    log[k].ev = "reject" =>
      /\ EventsOf(log[k].seg, {"launch"}) = <<>>
      /\ \A j \in DOMAIN log :
           log[j].seg = log[k].seg /\ log[j].ev = "return" => log[j].code = 1

(***************************************************************************)
(* C4: only a standalone unquoted token acts as an operator: the line is   *)
(* split at its unquoted ; && || tokens and nowhere else, and a segment is *)
(* run as a pipeline only if the line has an unquoted token |.             *)
(***************************************************************************)
UnquotedTokens(l, texts) ==
  SelectSeq(LexTokens(l).toks, LAMBDA t : ~t.quoted /\ t.text \in texts)

C4_OnlyUnquotedStandaloneOperators ==
  Executing =>
    /\ Len(operators) = Len(UnquotedTokens(line, OperatorTokens))
    /\ (pc \in {"launch", "wait"} => UnquotedTokens(line, {PIPE}) # <<>>)

(***************************************************************************)
(* C5: expansion is applied once to the raw line before it is tokenized,   *)
(* in pipeline segments as in single commands: the words a pipeline stage  *)
(* runs are those of the line with every $NAME replaced from the Variable  *)
(* Store as it was when the line was read.                                 *)
(***************************************************************************)
\* the segments of the line had it been expanded before tokenizing
PreExpandedSegments ==
  Segmenter(shlex_split(expand_vars(line, vars0)).tokens).segments

\* what the system shell that runs a stage makes of a $NAME left in its
\* command: the value the process environment has for it
ShellWords(cmd) == SplitWs(expand_vars(cmd, NoVars))

C5_ExpandedBeforeTokenizing ==
  \A k \in DOMAIN log :
    log[k].ev = "launch" =>
      /\ log[k].seg <= Len(PreExpandedSegments)
      /\ log[k].stage <= Len(StageCommands(PreExpandedSegments[log[k].seg]))
      /\ ShellWords(log[k].text)
           = SplitWs(StageCommands(PreExpandedSegments[log[k].seg])[log[k].stage])

(***************************************************************************)
(* C6: a segment IDENTIFIER=VALUE given to run_command binds IDENTIFIER,   *)
(* returns 0 and does nothing else (no lookup, no resolution, no spawn).   *)
(* As stated: a later $IDENTIFIER expands to VALUE.  As amended: it        *)
(* expands to VALUE when VALUE is not empty, and to the environment's      *)
(* value of IDENTIFIER (empty if it has none) when VALUE is empty.         *)
(***************************************************************************)
\* IDENTIFIER and VALUE of a segment of the form IDENTIFIER=VALUE
AssignId(segment) ==
  Strip(SubSeq(Strip(segment), 1, FirstIndex(Strip(segment), "=", 1) - 1))
AssignValue(segment) ==
  Strip(SubSeq(Strip(segment), FirstIndex(Strip(segment), "=", 1) + 1,
               Len(Strip(segment))))
IsAssignForm(segment) ==
  /\ Contains(segment, "=") /\ ~IsPipeline(segment)
  /\ IsIdentifier(AssignId(segment))
  /\ ~StartsWith(Strip(segment), EXPORT)

EnvValue(id) == IF id \in DOMAIN environ THEN environ[id] ELSE <<>>

\* `e $ID` right after the assignment of segment s prints `e` and expected
EchoAfter(s, expected) ==
  /\ s + 1 <= Len(Done) /\ Done[s + 1].ev = "builtin"
  /\ Strip(segments[s + 1]) = <<"e", " ", "$">> \o AssignId(segments[s])
  => Done[s + 1].text =
       Words(<<wE>> \o (IF expected = <<>> THEN <<>> ELSE <<expected>>))

AssignmentOnly(s) ==
  /\ Done[s].ev = "assign" /\ Done[s].code = 0
  /\ Len(EventsOf(s, CompletionEvents \cup
                     {"launch", "exit", "reject", "stagefail"})) = 1
  /\ (s = Len(Done) /\ Executing =>
        /\ AssignId(segments[s]) \in DOMAIN user_vars
        /\ user_vars[AssignId(segments[s])] = AssignValue(segments[s])
        /\ last_code = 0)

C6_AssignmentBindsValue ==
  \A s \in 1..Len(Done) :
    IsAssignForm(segments[s]) /\ Ran(Done[s]) =>
      /\ AssignmentOnly(s)
      /\ (s = Len(Done) /\ Executing =>
            expand_vars(<<"$">> \o AssignId(segments[s]), user_vars)
              = AssignValue(segments[s]))
      /\ EchoAfter(s, AssignValue(segments[s]))

C6_AssignmentBindsOrFallsBack ==
  \A s \in 1..Len(Done) :
    IsAssignForm(segments[s]) /\ Ran(Done[s]) =>
      LET id       == AssignId(segments[s])
          v        == AssignValue(segments[s])
          expected == IF v # <<>> THEN v ELSE EnvValue(id)
      IN
        /\ AssignmentOnly(s)
        /\ (s = Len(Done) /\ Executing =>
              expand_vars(<<"$">> \o id, user_vars) = expected)
        /\ EchoAfter(s, expected)

\* `H= ; e $H`: the empty binding of H, and the echo that printed the
\* environment's value
C6_Witness ==
  /\ Len(Done) = 2
  /\ IsAssignForm(segments[1]) /\ AssignValue(segments[1]) = <<>>
  /\ Done[1].ev = "assign"
  /\ user_vars[AssignId(segments[1])] = <<>>
  /\ Done[2].ev = "builtin" /\ Done[2].text = Words(<<wE, <<"h">> >>)

(***************************************************************************)
(* C7: the assignment pattern is matched on the expanded segment: after    *)
(* `Y=$X` with X bound to v, Y is bound to v.                              *)
(***************************************************************************)
C7_AssignmentAfterExpansion ==
  \A s \in 1..Len(Done) :
    /\ s = Len(Done) /\ Executing
    /\ Done[s].ev = "assign"
    /\ \E name \in DOMAIN user_vars :
         /\ user_vars[name] # <<>>
         /\ AssignValue(segments[s]) = <<"$">> \o name
    => LET expanded == expand_vars(Strip(segments[s]), user_vars) IN
         user_vars[AssignId(expanded)] = AssignValue(expanded)

(***************************************************************************)
(* C8: a pipeline whose stages were all launched waits for every stage in  *)
(* launch order and returns the exit status of the last stage, whatever    *)
(* the earlier stages returned.                                            *)
(***************************************************************************)
AllLaunched(s) ==
  Len(EventsOf(s, {"launch"})) = Len(StageCommands(segments[s]))

C8_WaitsAllReturnsLast ==
  \A s \in 1..Len(Done) :
    Done[s].ev = "return" /\ AllLaunched(s) =>
      LET W == EventsOf(s, {"wait"})
          n == Len(StageCommands(segments[s]))
      IN
        /\ Len(W) = n
        /\ \A j \in 1..n : W[j].stage = j
        /\ Done[s].code = W[n].code

\* a pipeline that returned 0 although its first stage did not
C8_Witness ==
  \E s \in 1..Len(Done) :
    /\ Done[s].ev = "return" /\ AllLaunched(s)
    /\ Len(EventsOf(s, {"wait"})) >= 2
    /\ EventsOf(s, {"wait"})[1].code # 0
    /\ Done[s].code = 0

(***************************************************************************)
(* C9: when the spawn of stage k fails, every stage launched before it is  *)
(* killed, the pipeline returns 1 and no stage after k is launched.        *)
(***************************************************************************)
C9_SpawnFailureKillsAndStops ==
  \A k \in DOMAIN log :
    log[k].ev = "stagefail" =>
      LET s == log[k].seg
          L == EventsOf(s, {"launch"})
          K == EventsOf(s, {"kill"})
          R == EventsOf(s, {"return"})
      IN
        /\ Len(L) = log[k].stage - 1
        /\ \A j \in 1..Len(L) : L[j].stage = j
        /\ Len(K) = Len(L)
        /\ \A j \in 1..Len(K) : K[j].stage = j
        /\ Len(R) = 1 /\ R[1].code = 1
        /\ EventsOf(s, {"wait"}) = <<>>
        /\ (s = idx - 1 /\ Executing =>
              /\ Len(procs) = Len(L)
              /\ \A j \in 1..Len(procs) : procs[j].state = "killed")

\* the second of three stages failed to spawn: the first one is killed,
\* the third is never launched
C9_Witness ==
  \E k \in DOMAIN log :
    /\ log[k].ev = "stagefail" /\ log[k].stage = 2
    /\ Len(StageCommands(segments[log[k].seg])) = 3
    /\ Len(procs) = 1 /\ procs[1].state = "killed"
    /\ last_code = 1 /\ pc = "eval"

(***************************************************************************)
(* C10: a single command whose first word is neither a builtin nor on the  *)
(* search path spawns nothing and yields 127, and the line goes on: the    *)
(* segment after it runs after ; and after ||, and is skipped after &&.    *)
(***************************************************************************)
FirstWord(e) == IF e.text = <<>> THEN <<>> ELSE SplitWs(e.text)[1]

C10_NotFoundIs127AndLineGoesOn ==
  \A s \in 1..Len(Done) :
    /\ Done[s].ev \in {"builtin", "external", "spawnfail", "notfound"}
    /\ FirstWord(Done[s]) \notin internal_commands \cup OnPath
    => /\ Done[s].ev = "notfound" /\ Done[s].code = 127
       /\ Len(EventsOf(s, CompletionEvents \cup {"launch", "exit"})) = 1
       /\ (log[Len(log)] = Done[s] => pc = "eval" /\ last_code = 127)
       /\ (s < Len(Done) =>
             (Ran(Done[s + 1]) <=> operators[s] \in {SEQ, OR}))

\* `n || t`: the command not found, and the fallback that ran
C10_Witness ==
  /\ Len(Done) >= 2
  /\ Done[1].ev = "notfound" /\ Done[1].code = 127
  /\ operators[1] = OR /\ Done[2].ev = "external"

(***************************************************************************)
(* C11: when exit runs as a single command, its termination request is not *)
(* turned into a status: the segment gets no status, nothing of the line   *)
(* happens after it (no later segment is run or skipped), the read loop    *)
(* has stopped, and history has been saved.                                *)
(***************************************************************************)
C11_ExitEndsLineAndLoop ==
  \A k \in DOMAIN log :
    log[k].ev = "exit" =>
      /\ k = Len(log)
      /\ log[k].seg = idx
      /\ EventsOf(log[k].seg, CompletionEvents) = <<>>
      /\ last_code = LastStatus(Done, idx)
      /\ pc = "done" /\ saved

\* `exit ; t`: the shell has ended and t, after the `;`, never ran
C11_Witness ==
  /\ pc = "done" /\ saved
  /\ log # <<>> /\ log[Len(log)].ev = "exit"
  /\ idx < Len(segments) /\ operators[idx] = SEQ

(***************************************************************************)
(* C12: the read loop ends only on exit or on end of input; an interrupt   *)
(* or any other fault raised while a line is read or executed is reported  *)
(* and the shell is back at its prompt, with history not yet saved.        *)
(***************************************************************************)
C12_LoopEndsOnlyOnExitOrEof ==
  /\ pc = "done" =>
       /\ saved
       /\ \/ msg = "goodbye"
          \/ log # <<>> /\ log[Len(log)].ev = "exit"
  /\ msg \in {"interrupt", "unexpected", "assertion"} =>
       pc = "prompt" /\ ~saved /\ Idle

\* an interrupt was reported and the shell, with a variable bound by an
\* earlier line, is at its prompt again
C12_Witness ==
  /\ msg = "interrupt" /\ pc = "prompt"
  /\ user_vars # NoVars

(***************************************************************************)
(* C13: a line with a quote left open is rejected as a whole: it never     *)
(* starts evaluation, and the step that reports it spawns nothing, binds   *)
(* no variable, executes no segment and leaves the shell at its prompt.    *)
(***************************************************************************)
C13_OpenQuoteRejectsLine ==
  [][pc = "prompt" =>
       /\ (pc' = "eval" => LexTokens(line').ok)
       /\ (msg' = "unexpected" =>
             /\ pc' = "prompt"
             /\ UNCHANGED <<saved, user_vars, lineVars, pipeVars, log>>)]_vars

\* the line `"t` was reported while X was bound, and the shell is at its
\* prompt with X still bound and nothing run
C13_Witness ==
  /\ msg = "unexpected" /\ pc = "prompt"
  /\ user_vars # NoVars /\ Idle

(***************************************************************************)
(* C14: an exception raised inside a builtin other than exit ends at the   *)
(* dispatch boundary as status 1: execute_line goes on with the segments   *)
(* that remain, which are gated on 1 (run after ; and ||, skipped after    *)
(* &&), and main reports nothing.                                          *)
(***************************************************************************)
C14_BuiltinFaultIsStatus1 ==
  \A k \in DOMAIN log :
    log[k].ev = "fault" =>
      LET s == log[k].seg IN
        /\ log[k].code = 1
        /\ s <= Len(Done) /\ Done[s] = log[k]
        /\ pc # "prompt" /\ msg = ""
        /\ (k = Len(log) => pc = "eval" /\ idx = s + 1 /\ last_code = 1)
        /\ (s < Len(Done) =>
              (Ran(Done[s + 1]) <=> operators[s] \in {SEQ, OR}))

\* `e || t`: e raised, and t ran on the status 1 that came of it
C14_Witness ==
  /\ Len(Done) >= 2
  /\ Done[1].ev = "fault" /\ operators[1] = OR
  /\ Done[2].ev = "external"

(***************************************************************************)
(* C15: for every line with at least one token the segmenter yields        *)
(* exactly one operator fewer than segments, lines that begin or end with  *)
(* an operator or hold consecutive operators included.                     *)
(***************************************************************************)
C15_OneOperatorFewerThanSegments ==
  Executing => Len(operators) = Len(segments) - 1

(***************************************************************************)
(* C16: an empty segment (from a leading operator or consecutive           *)
(* operators) is skipped as a no-op: nothing is resolved or spawned for    *)
(* it, and the status the next operator decision sees is the one left by   *)
(* the last non-empty segment that was executed.                           *)
(***************************************************************************)
\* the status of the last non-empty segment before s that was executed (0
\* if none)
LastNonEmptyStatus(d, s) ==
  LET R == {j \in 1..(s - 1) :
              j <= Len(d) /\ Ran(d[j]) /\ Strip(segments[j]) # <<>>}
  IN IF R = {} THEN 0 ELSE d[Max(R)].code

C16_EmptySegmentKeepsStatus ==
  \A s \in 1..Len(Done) :
    Strip(segments[s]) = <<>> =>
      /\ Done[s].ev \in {"skip", "noop"}
      /\ Len(EventsOf(s, CompletionEvents \cup {"launch", "exit"})) = 1
      /\ (s = Len(Done) /\ s < Len(segments) /\ pc = "eval" =>
            last_code = LastNonEmptyStatus(Done, s))

(***************************************************************************)
(* C17: the stages of a pipeline are launched from left to right; the      *)
(* first reads the shell's input, every later stage reads the output of    *)
(* the stage before it, every stage but the last writes to a pipe and the  *)
(* last to the shell's output; once a stage is launched the shell has      *)
(* closed its handle to the output of the stage before, so it holds at     *)
(* most one open handle, that of the stage launched last, and none once    *)
(* the last stage is launched.                                             *)
(***************************************************************************)
\* the handles of the pipeline that is being run
OpenHandles == {h \in handles : h[1] = idx}

C18_NoOpenHandleAtReturn ==
  \A k \in DOMAIN log :
    log[k].ev = "return" => {h \in handles : h[1] = log[k].seg} = {}

(***************************************************************************)
(* Loading the file: its top-level statements, run in the order of the     *)
(* file.  A statement binds names in the module's namespace and needs the  *)
(* names it evaluates when it runs (a def evaluates its annotations, not   *)
(* its body); a needed name that is not bound yet raises NameError and     *)
(* the load stops there.  Imports are taken to succeed.                    *)
(***************************************************************************)
Stmt(l, b, n) == [line |-> l, binds |-> b, needs |-> n]

TableHandlers ==
  {"internal_help", "internal_exit", "internal_clear", "internal_env",
   "internal_set", "internal_cd", "internal_ls", "internal_echo"}

TopLevel ==
  << Stmt(2, {"os"}, {}), Stmt(3, {"shutil"}, {}),
     Stmt(4, {"subprocess"}, {}), Stmt(5, {"re"}, {}),
     Stmt(6, {"readline"}, {}), Stmt(7, {"getpass"}, {}),
     Stmt(8, {"socket"}, {}), Stmt(9, {"shlex"}, {}),
     Stmt(10, {"List", "Optional"}, {}),
     Stmt(11, {"init", "Fore", "Style"}, {}),
     Stmt(13, {}, {"init"}),
     Stmt(15, {"HISTFILE"}, {"os"}),
     Stmt(16, {"HISTORY_LIMIT"}, {}),
     Stmt(18, {"user_vars"}, {}),
     Stmt(20, {"load_history"}, {}),
     Stmt(27, {"save_history"}, {}),
     Stmt(33, {"expand_vars"}, {}),
     Stmt(40, {"assign_variable"}, {}),
     Stmt(51, {"internal_help"}, {"List"}),
     Stmt(61, {"internal_exit"}, {"List"}),
     Stmt(65, {"internal_clear"}, {"List"}),
     Stmt(69, {"internal_env"}, {"List"}),
     Stmt(75, {"internal_set"}, {"List"}),
     Stmt(80, {"internal_commands"}, TableHandlers),
     Stmt(91, {"internal_cd"}, {"List"}),
     Stmt(110, {"internal_ls"}, {"List"}),
     Stmt(123, {"internal_echo"}, {"List"}),
     Stmt(127, {"execute_internal"}, {"List"}),
     Stmt(136, {"execute_external"}, {"List"}),
     Stmt(147, {"run_command"}, {}),
     Stmt(171, {"run_pipeline"}, {}),
     Stmt(212, {"execute_line"}, {}),
     Stmt(257, {"shorten_cwd"}, {}),
     Stmt(265, {"prompt"}, {}),
     Stmt(271, {"main"}, {}),
     Stmt(293, {}, {"main"}) >>

\* the names bound when statement k is about to run, the statements before
\* it having run
BoundBefore(k) == UNION {TopLevel[j].binds : j \in 1..(k - 1)}

\* the statements that raise NameError if the load gets to them
Unbound ==
  {k \in DOMAIN TopLevel : ~(TopLevel[k].needs \subseteq BoundBefore(k))}

\* the load: main is called by the last statement if no statement before
\* it raised, else the line of the statement that raised
ModuleLoad ==
  IF Unbound = {} THEN [main |-> TRUE, line |-> 0]
  ELSE LET first == CHOOSE k \in Unbound : \A j \in Unbound : k <= j
       IN [main |-> FALSE, line |-> TopLevel[first].line]

(***************************************************************************)
(* C19: start-up reaches the interactive loop: when the internal_commands  *)
(* table is built every handler it names is already defined, so the load   *)
(* gets to its last statement, main is entered and the first line is read. *)
(***************************************************************************)
C19_StartupReachesLoop ==
  pc = "prompt" =>
    /\ \A k \in DOMAIN TopLevel :
         "internal_commands" \in TopLevel[k].binds =>
           TableHandlers \subseteq BoundBefore(k)
    /\ ModuleLoad.main

(***************************************************************************)
(* C20: for every token list with at least one token the assertion         *)
(* len(segments) >= 1 holds and every lookup operators[idx - 1] of the     *)
(* evaluation loop is within bounds: there are at least len(segments) - 1  *)
(* operators.                                                              *)
(***************************************************************************)
C20_AssertAndLookupsHold ==
  /\ msg # "assertion"
  /\ Executing =>
       /\ shlex_split(line).tokens # <<>>
       /\ Len(segments) >= 1
       /\ Len(operators) >= Len(segments) - 1
  /\ InLoop /\ idx > 1 => (idx - 1) \in DOMAIN operators

\* `; t`: a line that begins with an operator, at the lookup of its last
\* operator for its last segment
C20_Witness ==
  /\ InLoop /\ idx = Len(segments) /\ idx >= 2
  /\ segments[1] = <<>>
  /\ Len(operators) = idx - 1

====
